---------------------------- MODULE Spec2Model ----------------------------
(***************************************************************************)
(* Model of src/server.js: the Stripe failed-payment monitor.              *)
(*                                                                         *)
(* One Express process: a bounded in-memory log (addLog), the alert        *)
(* content generator (generateEmailContent), the alert dispatcher          *)
(* (sendEmailAlert) and the handlers of POST /webhook, POST /test and      *)
(* GET /logs.  The runtime is single threaded: a handler runs without      *)
(* interruption up to its next `await`, so every action below is one such  *)
(* run-to-suspension segment, and segments of different requests           *)
(* interleave freely.  The text-generation and mail collaborators are      *)
(* opaque: each outstanding call settles with a nondeterministic outcome.  *)
(***************************************************************************)
EXTENDS Integers, Sequences, FiniteSets, TLC

(***************************************************************************)
(* Bounds of the model and constants of the program.                       *)
(***************************************************************************)
\* number of POST requests of a behaviour of Spec (every input)
NReq == 1
\* number of POST requests of a behaviour of SpecPar, SpecFull and SpecFair
\* (the inputs that decide how requests interleave)
NPar == 2
\* free entries of the log buffer in the initial state of SpecFull
Headroom == 2
\* capacity of the log buffer: `if (logs.length > 100) logs.shift()`
MaxLogs == 100
\* GET /logs returns `logs.slice(-50)`
RecentLogs == 50

Reqs == 1..(IF NReq > NPar THEN NReq ELSE NPar)

(***************************************************************************)
(* JavaScript values.  A string is kept as the sequence of its lines, so   *)
(* that replace(/\n/g, '<br>') is computable.                              *)
(***************************************************************************)
Undef == [t |-> "undefined"]
Null == [t |-> "null"]
Bool(b) == [t |-> "boolean", b |-> b]
Num(n) == [t |-> "number", n |-> n]
NaN == [t |-> "number", nan |-> TRUE]
Text(ls) == [t |-> "string", s |-> ls]
Str(s) == Text(<<s>>)
Obj(f) == [t |-> "object", o |-> f]

IsNullish(v) == v.t \in {"undefined", "null"}
IsString(v) == v.t = "string"

\* ToBoolean, as used by `||` and `? :`
Truthy(v) ==
  CASE v.t \in {"undefined", "null"} -> FALSE
    [] v.t = "boolean" -> v.b
    [] v.t = "number" -> v # NaN /\ v # Num(0)
    [] v.t = "string" -> v # Str("")
    [] OTHER -> TRUE

\* a || b
OrElse(a, b) == IF Truthy(a) THEN a ELSE b

\* the outcome of an expression: a value, or a thrown error with its message
Ok(v) == [ok |-> TRUE, val |-> v]
Throw(m) == [ok |-> FALSE, err |-> m]

\* v.f : throws on undefined and null, undefined for a missing property
Get(v, f) ==
  IF IsNullish(v) THEN Throw("TypeError: Cannot read properties of " \o v.t)
  ELSE IF v.t = "object" /\ f \in DOMAIN v.o THEN Ok(v.o[f])
  ELSE Ok(Undef)

\* v?.f
OptGet(v, f) == IF IsNullish(v) THEN Undef ELSE Get(v, f).val

UpperOf(s) ==
  CASE s = "usd" -> "USD"
    [] s = "eur" -> "EUR"
    [] OTHER -> s

\* v?.toUpperCase()
OptToUpperCase(v) ==
  IF IsNullish(v) THEN Ok(Undef)
  ELSE IF IsString(v) /\ "s" \in DOMAIN v
       THEN Ok(Text([i \in DOMAIN v.s |-> UpperOf(v.s[i])]))
  ELSE IF IsString(v) THEN Ok(v)
  ELSE Throw("TypeError: toUpperCase is not a function")

\* ToNumber, for the operand of `/`
ToNumber(v) ==
  CASE v.t = "number" -> v
    [] v.t = "null" -> Num(0)
    [] v.t = "boolean" -> Num(IF v.b THEN 1 ELSE 0)
    [] OTHER -> NaN

Pad2(n) == IF n < 10 THEN "0" \o ToString(n) ELSE ToString(n)

\* (amount / 100).toFixed(2), amount a non-negative integer of minor units
AmountText(amount) ==
  LET x == ToNumber(amount)
  IN IF x = NaN THEN "NaN"
     ELSE ToString(x.n \div 100) \o "." \o Pad2(x.n % 100)

\* `${v}` for the values a template below interpolates (one-line strings)
Show(v) ==
  CASE v.t = "string" /\ "s" \in DOMAIN v -> v.s[1]
    [] v.t = "number" -> IF v = NaN THEN "NaN" ELSE ToString(v.n)
    [] OTHER -> v.t

\* A string whose characters spell the JSON value v, and one that spells none.
JsonText(v) == [t |-> "string", spells |-> v]
Garbage == Str("not json")

\* JSON.parse(x): x is converted to a string and parsed; a SyntaxError is thrown
\* when the string is not JSON ("undefined", "[object Object]", free text).
JSONParse(x) ==
  CASE x.t = "string" ->
         IF "spells" \in DOMAIN x THEN Ok(x.spells)
         ELSE Throw("SyntaxError: Unexpected token")
    [] x.t \in {"null", "number", "boolean"} -> Ok(x)
    [] OTHER -> Throw("SyntaxError: Unexpected token")

RECURSIVE JoinBr(_)
\* s.replace(/\n/g, '<br>') on the lines of s
JoinBr(ls) ==
  IF Len(ls) = 0 THEN ""
  ELSE IF Len(ls) = 1 THEN ls[1]
  ELSE ls[1] \o "<br>" \o JoinBr(Tail(ls))

\* v.replace(/\n/g, '<br>')
ReplaceNewlines(v) ==
  IF IsNullish(v) THEN Throw("TypeError: Cannot read properties of " \o v.t)
  ELSE IF IsString(v) /\ "s" \in DOMAIN v THEN Ok(Str(JoinBr(v.s)))
  ELSE IF IsString(v) THEN Ok(v)
  ELSE Throw("TypeError: replace is not a function")

(***************************************************************************)
(* The log buffer (src/server.js 28-43).  An entry's timestamp is left     *)
(* out: no handler modelled here reads it.                                 *)
(***************************************************************************)
Entry(level, message, data) == [level |-> level, message |-> message, data |-> data]

\* addLog that shifts as soon as the buffer is full
AddLogEarlyShift(l, e) ==
  LET pushed == Append(l, e)
  IN IF Len(pushed) >= MaxLogs THEN Tail(pushed) ELSE pushed

\* addLog: push, then shift once when the length exceeds the capacity
AddLog(l, e) ==
  LET pushed == Append(l, e)
  IN IF Len(pushed) > MaxLogs THEN Tail(pushed) ELSE pushed

RECURSIVE AddLogs(_, _)
\* the addLog calls of one run-to-suspension segment, in order
AddLogs(l, es) == IF es = <<>> THEN l ELSE AddLogs(AddLog(l, Head(es)), Tail(es))

\* logs.slice(-n)
SliceLast(l, n) == IF Len(l) <= n THEN l ELSE SubSeq(l, Len(l) - n + 1, Len(l))

(***************************************************************************)
(* generateEmailContent (src/server.js 46-94).                             *)
(***************************************************************************)
CustomerName(fp) == OrElse(OptGet(Get(fp, "customer").val, "name"), Str("Unknown"))
CustomerEmail(fp) == OrElse(OptGet(Get(fp, "customer").val, "email"), Str("Not provided"))
FailureCode(fp) == OrElse(Get(fp, "failure_code").val, Str("Unknown"))
FailureMessage(fp) == OrElse(Get(fp, "failure_message").val, Str("No details provided"))
PaymentMethod(fp) ==
  OrElse(OptGet(Get(fp, "payment_method_details").val, "type"), Str("Unknown"))
\* failedPayment.currency?.toUpperCase() || 'USD'
Currency(fp) ==
  LET up == OptToUpperCase(Get(fp, "currency").val)
  IN IF up.ok THEN Ok(OrElse(up.val, Str("USD"))) ELSE up

\* the prompt template of lines 48-63: its text, or the error it throws
BuildPrompt(fp) ==
  IF IsNullish(fp) THEN Get(fp, "customer")
  ELSE IF ~Currency(fp).ok THEN Currency(fp)
  ELSE Ok(Text(<<"Generate a professional email alert for a failed payment",
                 "Customer: " \o Show(CustomerName(fp)),
                 "Email: " \o Show(CustomerEmail(fp)),
                 "Amount: $" \o AmountText(Get(fp, "amount").val),
                 "Currency: " \o Show(Currency(fp).val),
                 "Failure Code: " \o Show(FailureCode(fp)),
                 "Failure Message: " \o Show(FailureMessage(fp)),
                 "Payment Method: " \o Show(PaymentMethod(fp)),
                 "Format as JSON with \"subject\" and \"body\" fields.">>))

\* the fallback object of lines 75-92: the content, or the error it throws
\* (the emoji that opens the subject is left out)
FallbackContent(fp) ==
  IF IsNullish(fp) THEN Get(fp, "amount")
  ELSE IF ~Currency(fp).ok THEN Currency(fp)
  ELSE Ok(Obj([
    subject |-> Str("Payment Failed - $" \o AmountText(Get(fp, "amount").val)
                    \o " from "
                    \o Show(OrElse(OptGet(Get(fp, "customer").val, "email"),
                                   Str("Unknown Customer")))),
    body |-> Text(<<"A payment has failed in your Stripe account.",
                    "",
                    "Details:",
                    "- Customer: " \o Show(CustomerName(fp))
                       \o " (" \o Show(CustomerEmail(fp)) \o ")",
                    "- Amount: $" \o AmountText(Get(fp, "amount").val)
                       \o " " \o Show(Currency(fp).val),
                    "- Failure Reason: " \o Show(FailureMessage(fp)),
                    "- Failure Code: " \o Show(FailureCode(fp)),
                    "- Payment Method: " \o Show(PaymentMethod(fp)),
                    "",
                    "Next Steps:",
                    "1. Review the failure reason above",
                    "2. Contact the customer if needed",
                    "3. Check your Stripe dashboard for more details",
                    "",
                    "This is an automated alert from your Stripe monitoring system.">>)]))

\* a catch block that logs and throws the error again
GenCatchRethrow(fp, msg) ==
  [ret |-> Throw(msg),
   logged |-> <<Entry("error", "Failed to generate email content with OpenAI", Str(msg))>>]

\* the catch block of lines 72-93: one error entry, then the fallback
GenCatch(fp, msg) ==
  [ret |-> FallbackContent(fp),
   logged |-> <<Entry("error", "Failed to generate email content with OpenAI", Str(msg))>>]

\* completion.choices[0].message.content
CompletionContent(completion) ==
  LET choices == Get(completion, "choices")
      first == IF choices.ok THEN Get(choices.val, "0") ELSE choices
      message == IF first.ok THEN Get(first.val, "message") ELSE first
  IN IF message.ok THEN Get(message.val, "content") ELSE message

\* lines 47-69: the synchronous part, up to the text-generation call.  Either
\* the call is made (call = TRUE) or the template threw and the catch block ran.
GenStart(fp) ==
  LET p == BuildPrompt(fp)
  IN IF p.ok THEN [call |-> TRUE, prompt |-> p.val, ret |-> Ok(Undef), logged |-> <<>>]
     ELSE [call |-> FALSE, prompt |-> Undef] @@ GenCatch(fp, p.err)

\* lines 65-93 once the text-generation call has settled with `settled`
GenResume(fp, settled) ==
  LET content == IF settled.ok THEN CompletionContent(settled.val) ELSE settled
      parsed == IF content.ok THEN JSONParse(content.val) ELSE content
  IN IF parsed.ok THEN [ret |-> parsed, logged |-> <<>>]
     ELSE GenCatch(fp, parsed.err)

(***************************************************************************)
(* sendEmailAlert (src/server.js 97-116).                                  *)
(***************************************************************************)
\* process.env.ALERT_EMAIL || <default>
EnvOr(env, default) == OrElse(env, Str(default))

\* the mailOptions object of lines 101-107: the message, or the error thrown
MailOptions(env, content) ==
  LET subject == Get(content, "subject")
      body == Get(content, "body")
      html == IF body.ok THEN ReplaceNewlines(body.val) ELSE body
  IN IF ~subject.ok THEN subject
     ELSE IF ~html.ok THEN html
     ELSE Ok([from |-> EnvOr(env, "stripe-monitor@yourdomain.com"),
              to |-> EnvOr(env, "admin@yourdomain.com"),
              subject |-> subject.val,
              text |-> body.val,
              html |-> html.val])

\* a catch block that logs and throws the error again
SendCatchRethrow(msg) ==
  [ret |-> Throw(msg),
   logged |-> <<Entry("error", "Failed to send email alert", Str(msg))>>]

\* the catch block of lines 112-115: one error entry, return false
SendCatch(msg) ==
  [ret |-> Ok(Bool(FALSE)),
   logged |-> <<Entry("error", "Failed to send email alert", Str(msg))>>]

\* lines 99-109 once generateEmailContent has settled with `gen`: either the
\* message is handed to the transport (submit = TRUE) or the catch block ran
SendResume(env, gen) ==
  LET m == IF gen.ok THEN MailOptions(env, gen.val) ELSE gen
  IN IF m.ok THEN [submit |-> TRUE, mail |-> m.val, ret |-> Ok(Undef), logged |-> <<>>]
     ELSE [submit |-> FALSE, mail |-> Undef] @@ SendCatch(m.err)

\* a continuation whose catch block logs the error and still returns true
SendAfterMailAlwaysTrue(settled) ==
  LET id == IF settled.ok THEN Get(settled.val, "messageId") ELSE settled
  IN IF id.ok
       THEN [ret |-> Ok(Bool(TRUE)),
             logged |-> <<Entry("info", "Email alert sent successfully",
                                Obj([messageId |-> id.val]))>>]
       ELSE [ret |-> Ok(Bool(TRUE)), logged |-> SendCatch(id.err).logged]

\* lines 109-115 once transporter.sendMail has settled with `settled`
SendAfterMail(settled) ==
  LET id == IF settled.ok THEN Get(settled.val, "messageId") ELSE settled
  IN IF id.ok
       THEN [ret |-> Ok(Bool(TRUE)),
             logged |-> <<Entry("info", "Email alert sent successfully",
                                Obj([messageId |-> id.val]))>>]
       ELSE SendCatch(id.err)

(***************************************************************************)
(* POST /test (src/server.js 155-186).                                     *)
(***************************************************************************)
testPayment ==
  Obj([amount |-> Num(2999),
       currency |-> Str("usd"),
       failure_code |-> Str("card_declined"),
       failure_message |-> Str("Your card was declined."),
       customer |-> Obj([name |-> Str("Test Customer"), email |-> Str("test@example.com")]),
       payment_method_details |-> Obj([type |-> Str("card")])])

\* line 156
TestStart == <<Entry("info", "Manual test triggered", Null)>>

\* lines 173-185 once sendEmailAlert has settled with `sent`
TestFinish(sent) ==
  IF sent.ok
    THEN [res |-> [status |-> 200,
                   body |-> Obj([success |-> sent.val,
                                 message |-> IF Truthy(sent.val)
                                               THEN Str("Test email sent successfully!")
                                               ELSE Str("Test email failed to send"),
                                 testPayment |-> testPayment])],
          logged |-> <<>>]
    ELSE [res |-> [status |-> 500,
                   body |-> Obj([success |-> Bool(FALSE), error |-> Str(sent.err)])],
          logged |-> <<Entry("error", "Test failed", Str(sent.err))>>]

(***************************************************************************)
(* POST /webhook (src/server.js 189-213).                                  *)
(***************************************************************************)
\* the condition of line 194 without its last alternative
FailureTypesButCharge ==
  {Str("payment_intent.payment_failed"), Str("invoice.payment_failed")}

FailureTypes ==
  {Str("payment_intent.payment_failed"), Str("invoice.payment_failed"), Str("charge.failed")}

\* a catch block that answers and logs nothing
WebhookCatchSilent(msg) ==
  [res |-> [status |-> 400, body |-> Str("Webhook Error: " \o msg)],
   logged |-> <<>>]

\* the catch block of lines 209-212
WebhookCatch(msg) ==
  [res |-> [status |-> 400, body |-> Str("Webhook Error: " \o msg)],
   logged |-> <<Entry("error", "Webhook processing failed", Str(msg))>>]

\* res.json({ received: true })
Received == [status |-> 200, body |-> Obj([received |-> Bool(TRUE)])]

\* lines 191-205, up to the call of sendEmailAlert.  dispatch = TRUE: the
\* handler calls sendEmailAlert(fp) next; otherwise it has answered with res.
WebhookStart(body) ==
  LET event == JSONParse(body)
      type == IF event.ok THEN Get(event.val, "type") ELSE event
      receipt == <<Entry("info", "Received Stripe event: " \o Show(type.val), Null)>>
      data == Get(event.val, "data")
      object == IF data.ok THEN Get(data.val, "object") ELSE data
      amount == IF object.ok THEN Get(object.val, "amount") ELSE object
      none == [dispatch |-> FALSE, fp |-> Undef]
  IN IF ~type.ok THEN none @@ WebhookCatch(type.err)
     ELSE IF type.val \notin FailureTypes
       THEN none @@ [res |-> Received, logged |-> receipt]
     ELSE IF ~amount.ok
       THEN none @@ [res |-> WebhookCatch(amount.err).res,
                     logged |-> receipt \o WebhookCatch(amount.err).logged]
     ELSE [dispatch |-> TRUE, fp |-> object.val, res |-> Undef,
           logged |-> receipt \o
             <<Entry("warning", "Payment failure detected",
                     Obj([amount |-> amount.val,
                          customer |-> Get(object.val, "customer").val,
                          failure_code |-> Get(object.val, "failure_code").val]))>>]

\* a handler that answers 400 when the alert was not delivered
WebhookFinishStrict(sent) ==
  IF sent.ok /\ Truthy(sent.val) THEN [res |-> Received, logged |-> <<>>]
  ELSE WebhookCatch("alert not sent")

\* lines 205-212 once sendEmailAlert has settled with `sent`
WebhookFinish(sent) ==
  IF sent.ok THEN [res |-> Received, logged |-> <<>>] ELSE WebhookCatch(sent.err)

(***************************************************************************)
(* Inputs: request bodies and the outcomes of the two collaborators.       *)
(***************************************************************************)
NoFields == [k \in {} |-> Undef]

\* payment objects a webhook event may embed
SpecPayment == Obj([amount |-> Num(500), currency |-> Str("usd")])
\* every optional field missing
BarePayment == Obj([amount |-> Num(0)])
FullPayment ==
  Obj([amount |-> Num(1050),
       currency |-> Str("eur"),
       failure_code |-> Str("expired_card"),
       failure_message |-> Str("Your card has expired."),
       customer |-> Obj([name |-> Str("Ada"), email |-> Str("ada@example.com")]),
       payment_method_details |-> Obj([type |-> Str("card")])])
\* a currency that is not a string (the payload is not validated)
OddPayment == Obj([amount |-> Num(500), currency |-> Num(840)])

Event(type, object) == JsonText(Obj([type |-> type, data |-> Obj([object |-> object])]))

Bodies ==
  { Garbage,                                   \* not JSON
    Obj(NoFields),                             \* body left unparsed by express.raw
    JsonText(Null),
    JsonText(Obj(NoFields)),
    JsonText(Obj([type |-> Str("charge.succeeded")])),
    JsonText(Obj([type |-> Str("charge.failed")])),
    JsonText(Obj([type |-> Str("charge.failed"), data |-> Null])),
    JsonText(Obj([type |-> Str("charge.failed"), data |-> Obj(NoFields)])),
    Event(Str("charge.failed"), Null),
    Event(Str("charge.failed"), BarePayment),
    Event(Str("charge.failed"), OddPayment),
    Event(Str("invoice.payment_failed"), FullPayment),
    Event(Str("payment_intent.payment_failed"), SpecPayment) }

Completion(content) ==
  Obj([choices |-> Obj([i \in {"0"} |-> Obj([message |-> Obj([content |-> content])])])])

GoodContent == Obj([subject |-> Str("Payment failed"), body |-> Text(<<"Hello,", "a payment failed.">>)])

\* how the text-generation call settles
LLMOutcomes ==
  { Throw("Connection error."),
    Ok(Completion(JsonText(GoodContent))),
    Ok(Completion(Garbage)),
    Ok(Completion(JsonText(Null))),
    Ok(Completion(JsonText(Obj([subject |-> Str("Payment failed")])))),
    Ok(Obj([choices |-> Obj(NoFields)])) }

\* the inputs of SpecPar: one body per way a webhook request ends, and one
\* outcome per way generateEmailContent settles
CoreBodies ==
  { Garbage,
    JsonText(Obj([type |-> Str("charge.succeeded")])),
    Event(Str("payment_intent.payment_failed"), SpecPayment) }

CoreLLMOutcomes ==
  { Throw("Connection error."),
    Ok(Completion(JsonText(GoodContent))),
    Ok(Completion(JsonText(Null))) }

\* the inputs of SpecFull: one outcome per number of entries a call of
\* generateEmailContent adds to the log (one when it falls back, none otherwise)
LogLLMOutcomes ==
  { Throw("Connection error."),
    Ok(Completion(JsonText(GoodContent))) }

\* how transporter.sendMail settles
MailOutcomes ==
  { Ok(Obj([messageId |-> Str("<1@mail>")])),
    Throw("Invalid login") }

(***************************************************************************)
(* State.                                                                  *)
(***************************************************************************)
VARIABLES
  listening,  \* the listen callback has run
  env,        \* process.env.ALERT_EMAIL
  logs,       \* the log buffer
  pc,         \* per request: where its handler is suspended
  kind,       \* per request: "webhook" or "test"
  body,       \* per request: req.body
  payment,    \* per request: the failedPayment given to sendEmailAlert
  settled,    \* per request: the value the resuming continuation receives
  response,   \* per request: the responses sent, in order
  appended,   \* history: every addLog call so far, as <<request, caller, entry>>
  steps,      \* history, per request: calls, returns, outcome entry, response
  completion, \* history, per request: how its text-generation calls settled
  delivery,   \* history, per request: how its sendMail calls settled
  outbox      \* history, per request: the messages handed to the transport

vars == <<listening, env, logs, pc, kind, body, payment, settled, response,
          appended, steps, completion, delivery, outbox>>

\* the entries es, each marked with the function that passes it to addLog
By(who, es) == [i \in 1..Len(es) |-> <<who, es[i]>>]

\* addLog called for each marked entry of es on behalf of request r (0: the server)
Logged(r, es) ==
  /\ logs' = AddLogs(logs, [i \in 1..Len(es) |-> es[i][2]])
  /\ appended' = appended \o [i \in 1..Len(es) |-> <<r, es[i][1], es[i][2]>>]

Envs == {Undef, Str("ops@example.com")}

\* no request has arrived
NoRequests ==
  /\ pc = [r \in Reqs |-> "new"]
  /\ kind = [r \in Reqs |-> "none"]
  /\ body = [r \in Reqs |-> Undef]
  /\ payment = [r \in Reqs |-> Undef]
  /\ settled = [r \in Reqs |-> Ok(Undef)]
  /\ response = [r \in Reqs |-> <<>>]
  /\ steps = [r \in Reqs |-> <<>>]
  /\ completion = [r \in Reqs |-> <<>>]
  /\ delivery = [r \in Reqs |-> <<>>]
  /\ outbox = [r \in Reqs |-> <<>>]

\* the module has been loaded: nothing is logged, the server is not listening
Init ==
  /\ listening = FALSE
  /\ env \in Envs
  /\ logs = <<>>
  /\ appended = <<>>
  /\ NoRequests

\* app.listen's callback (lines 215-217)
Listen ==
  /\ ~listening
  /\ listening' = TRUE
  /\ Logged(0, By("listen",
       <<Entry("info", "Stripe Failed Payment Monitor started on port 3000", Null)>>))
  /\ UNCHANGED <<env, pc, kind, body, payment, settled, response, steps,
                 completion, delivery, outbox>>

\* request slots are taken in order: which slot a request gets is immaterial
Fresh(r) == listening /\ pc[r] = "new" /\ \A q \in Reqs : q < r => pc[q] # "new"

\* sendEmailAlert(fp) called by request r: runs generateEmailContent up to the
\* text-generation call, or through its catch block when the template throws
CallSendEmailAlert(r, fp, before) ==
  LET g == GenStart(fp)
  IN /\ Logged(r, before \o By("generateEmailContent", g.logged))
     /\ payment' = [payment EXCEPT ![r] = fp]
     /\ pc' = [pc EXCEPT ![r] = IF g.call THEN "llm" ELSE "gen"]
     /\ settled' = [settled EXCEPT ![r] = g.ret]
     /\ steps' = [steps EXCEPT ![r] =
                    IF g.call THEN <<"send_call", "llm_call">> ELSE <<"send_call">>]
     /\ UNCHANGED <<response, completion, delivery, outbox>>

\* POST /webhook arrives: lines 189-205 up to the first suspension
Webhook(r, bodies) ==
  /\ Fresh(r)
  /\ \E b \in bodies :
       LET w == WebhookStart(b)
       IN /\ body' = [body EXCEPT ![r] = b]
          /\ IF w.dispatch
               THEN CallSendEmailAlert(r, w.fp, By("webhook", w.logged))
               ELSE /\ Logged(r, By("webhook", w.logged))
                    /\ response' = [response EXCEPT ![r] = <<w.res>>]
                    /\ pc' = [pc EXCEPT ![r] = "done"]
                    /\ steps' = [steps EXCEPT ![r] = <<"responded">>]
                    /\ UNCHANGED <<payment, settled, completion, delivery, outbox>>
  /\ kind' = [kind EXCEPT ![r] = "webhook"]
  /\ UNCHANGED <<listening, env>>

\* POST /test arrives: lines 155-173 up to the first suspension
Test(r) ==
  /\ Fresh(r)
  /\ CallSendEmailAlert(r, testPayment, By("test", TestStart))
  /\ kind' = [kind EXCEPT ![r] = "test"]
  /\ UNCHANGED <<listening, env, body>>

\* the text-generation call of request r settles; generateEmailContent resumes
\* (lines 65-93) and settles in turn
LLMSettles(r, outcomes) ==
  /\ pc[r] = "llm"
  /\ \E out \in outcomes :
       LET g == GenResume(payment[r], out)
       IN /\ Logged(r, By("generateEmailContent", g.logged))
          /\ settled' = [settled EXCEPT ![r] = g.ret]
          /\ completion' = [completion EXCEPT ![r] = Append(@, out)]
  /\ pc' = [pc EXCEPT ![r] = "gen"]
  /\ steps' = [steps EXCEPT ![r] = Append(@, "llm_return")]
  /\ UNCHANGED <<listening, env, kind, body, payment, response, delivery, outbox>>

\* sendEmailAlert resumes after `await generateEmailContent` (lines 99-109)
Dispatch(r) ==
  /\ pc[r] = "gen"
  /\ LET d == SendResume(env, settled[r])
     IN /\ Logged(r, By("sendEmailAlert", d.logged))
        /\ settled' = [settled EXCEPT ![r] = d.ret]
        /\ pc' = [pc EXCEPT ![r] = IF d.submit THEN "mail" ELSE "sent"]
        /\ steps' = [steps EXCEPT ![r] =
                       Append(@, IF d.submit THEN "mail_call" ELSE "outcome_logged")]
        /\ outbox' = [outbox EXCEPT ![r] = IF d.submit THEN Append(@, d.mail) ELSE @]
  /\ UNCHANGED <<listening, env, kind, body, payment, response, completion, delivery>>

\* transporter.sendMail of request r settles; sendEmailAlert resumes (109-115)
MailSettles(r) ==
  /\ pc[r] = "mail"
  /\ \E out \in MailOutcomes :
       LET d == SendAfterMail(out)
       IN /\ Logged(r, By("sendEmailAlert", d.logged))
          /\ settled' = [settled EXCEPT ![r] = d.ret]
          /\ delivery' = [delivery EXCEPT ![r] = Append(@, out)]
  /\ pc' = [pc EXCEPT ![r] = "sent"]
  /\ steps' = [steps EXCEPT ![r] = @ \o <<"mail_return", "outcome_logged">>]
  /\ UNCHANGED <<listening, env, kind, body, payment, response, completion, outbox>>

\* a handler that answers only when the alert was sent
RespondIfSent(r) ==
  /\ pc[r] = "sent"
  /\ settled[r] = Ok(Bool(TRUE))
  /\ LET f == IF kind[r] = "test" THEN TestFinish(settled[r]) ELSE WebhookFinish(settled[r])
     IN /\ Logged(r, By(kind[r], f.logged))
        /\ response' = [response EXCEPT ![r] = Append(@, f.res)]
  /\ pc' = [pc EXCEPT ![r] = "done"]
  /\ steps' = [steps EXCEPT ![r] = Append(@, "responded")]
  /\ UNCHANGED <<listening, env, kind, body, payment, settled, completion, delivery, outbox>>

\* the handler resumes after `await sendEmailAlert` and answers
Respond(r) ==
  /\ pc[r] = "sent"
  /\ LET f == IF kind[r] = "test" THEN TestFinish(settled[r]) ELSE WebhookFinish(settled[r])
     IN /\ Logged(r, By(kind[r], f.logged))
        /\ response' = [response EXCEPT ![r] = Append(@, f.res)]
  /\ pc' = [pc EXCEPT ![r] = "done"]
  /\ steps' = [steps EXCEPT ![r] = Append(@, "responded")]
  /\ UNCHANGED <<listening, env, kind, body, payment, settled, completion, delivery, outbox>>

\* res.json of GET /logs (lines 147-153)
LogsResponse ==
  [status |-> 200, total |-> Len(logs), logs |-> SliceLast(logs, RecentLogs)]

\* GET /logs is answered with LogsResponse: the handler reads the buffer
\* between two segments of the other requests and writes nothing
GetLogs ==
  /\ listening
  /\ UNCHANGED vars

\* the requests R of a behaviour, with bodies B and text-generation outcomes O
Serve(R, B, O) ==
  \/ \E r \in R : Webhook(r, B)
  \/ \E r \in R : Test(r)
  \/ \E r \in R : LLMSettles(r, O)
  \/ \E r \in R : Dispatch(r)
  \/ \E r \in R : MailSettles(r)
  \/ \E r \in R : Respond(r)
  \/ GetLogs

Next == Listen \/ Serve(1..NReq, Bodies, LLMOutcomes)

\* every input, NReq requests
Spec == Init /\ [][Next]_vars

NextPar == Listen \/ Serve(1..NPar, CoreBodies, CoreLLMOutcomes)

\* a deployment with ALERT_EMAIL set
InitPar == Init /\ env = Str("ops@example.com")

\* NPar interleaved requests
SpecPar == InitPar /\ [][NextPar]_vars

\* the entries of a server that started and then served n - 1 webhook
\* requests of other event types, each logging its receipt
Earlier(n) ==
  [i \in 1..n |->
     IF i = 1 THEN Entry("info", "Stripe Failed Payment Monitor started on port 3000", Null)
     ELSE IF i % 2 = 0 THEN Entry("info", "Received Stripe event: charge.succeeded", Null)
     ELSE Entry("info", "Received Stripe event: undefined", Null)]

\* a listening server whose log is Headroom entries short of its capacity
InitFull ==
  /\ listening = TRUE
  /\ env = Str("ops@example.com")
  /\ logs = Earlier(MaxLogs - Headroom)
  /\ appended = [i \in 1..(MaxLogs - Headroom) |->
                   <<0, IF i = 1 THEN "listen" ELSE "webhook", Earlier(MaxLogs - Headroom)[i]>>]
  /\ NoRequests

NextFull == Serve(1..NPar, CoreBodies, LogLLMOutcomes)

\* NPar interleaved requests that take the log over its capacity
SpecFull == InitFull /\ [][NextFull]_vars

\* a step that resumes a suspended request: a collaborator call settles, or a
\* continuation that is ready to run is run
Resume ==
  \E r \in 1..NPar :
    \/ LLMSettles(r, CoreLLMOutcomes)
    \/ Dispatch(r)
    \/ MailSettles(r)
    \/ Respond(r)

\* Every outstanding collaborator call settles and the event loop runs what is
\* ready: while some request can be resumed, one is.  Nothing obliges a client
\* to send a request.
Fairness == WF_vars(Resume)

SpecFair == SpecPar /\ Fairness

(***************************************************************************)
(* Vocabulary of the properties.                                           *)
(***************************************************************************)
\* the entries passed to addLog so far, in call order
Passed == [i \in 1..Len(appended) |-> appended[i][3]]

\* the addLog calls made on behalf of request r
Owned(r) == SelectSeq(appended, LAMBDA x : x[1] = r)

\* how many entries of a level request r has logged
Level(r, level) == Len(SelectSeq(Owned(r), LAMBDA x : x[3].level = level))

\* how many entries of a level a function has logged on behalf of request r
LevelBy(r, who, level) ==
  Len(SelectSeq(Owned(r), LAMBDA x : x[2] = who /\ x[3].level = level))

\* how many times a step occurs in the history of request r
Times(r, step) == Len(SelectSeq(steps[r], LAMBDA x : x = step))

\* the position of a step's first occurrence in the history of request r, or 0
RECURSIVE FirstAt(_, _, _)
FirstAt(seq, step, i) ==
  IF i > Len(seq) THEN 0 ELSE IF seq[i] = step THEN i ELSE FirstAt(seq, step, i + 1)
Pos(r, step) == FirstAt(steps[r], step, 1)

\* requests p and q have interleaved: p logged, then q, then p again
Interleaved(p, q) ==
  \E i, j, k \in 1..Len(appended) :
    /\ i < j /\ j < k
    /\ appended[i][1] = p /\ appended[j][1] = q /\ appended[k][1] = p

(***************************************************************************)
(* C1.  Between any two handler segments, under every interleaving of      *)
(* /webhook, /test and GET requests, the log buffer holds at most 100      *)
(* entries, and they are exactly the last min(N, 100) entries passed to    *)
(* addLog, in the order passed (N the number of addLog calls); so the N    *)
(* calls have evicted max(0, N - 100) entries, one per overflowing call,   *)
(* always the oldest.  GET /logs answers with the length of that buffer    *)
(* and its last 50 entries.                                                *)
(***************************************************************************)
C1_LogBufferKeepsLast100 ==
  LET passed == Passed
      n == Len(passed)
      kept == IF n < MaxLogs THEN n ELSE MaxLogs
      shown == IF kept < RecentLogs THEN kept ELSE RecentLogs
  IN /\ Len(logs) <= MaxLogs
     /\ Len(logs) = kept
     /\ logs = SubSeq(passed, n - kept + 1, n)
     /\ LogsResponse.total = kept
     /\ LogsResponse.logs = SubSeq(passed, n - shown + 1, n)

\* two interleaved requests have taken the log past its capacity
C1_Witness ==
  /\ Len(appended) >= MaxLogs + 2
  /\ Interleaved(1, 2)
  /\ appended[Len(appended)][1] = 1
  /\ logs[1] # Passed[1]

(***************************************************************************)
(* Vocabulary of the webhook properties: what a request body carries.      *)
(***************************************************************************)
\* the body is JSON
Parses(b) == JSONParse(b).ok
\* the event the body spells, undefined when it spells none
EventOf(b) == IF Parses(b) THEN JSONParse(b).val ELSE Undef
\* the event's type, undefined when there is none
TypeOf(b) == OptGet(EventOf(b), "type")
\* the three event types that report a failed payment
IsFailureType(type) ==
  \/ type = Str("payment_intent.payment_failed")
  \/ type = Str("invoice.payment_failed")
  \/ type = Str("charge.failed")
\* the event's data.object, undefined when data or data.object is missing
ObjectOf(b) == OptGet(OptGet(EventOf(b), "data"), "object")
\* the event is not null and, if it reports a failed payment, embeds an object
Carries(b) ==
  /\ Parses(b)
  /\ ~IsNullish(EventOf(b))
  /\ IsFailureType(TypeOf(b)) => ~IsNullish(ObjectOf(b))

Answered(r) == pc[r] = "done" /\ Len(response[r]) = 1

(***************************************************************************)
(* C2, as claimed.  Every POST /webhook request whose body parses as JSON  *)
(* is answered 200 {received: true}, whatever the envelope carries, and    *)
(* only a body that does not parse is answered otherwise.                  *)
(***************************************************************************)
C2_ParsedMeansReceived ==
  \A r \in Reqs :
    kind[r] = "webhook" /\ pc[r] = "done" =>
      (response[r] = <<Received>> <=> Parses(body[r]))

(***************************************************************************)
(* C2, amended.  A POST /webhook request is answered 200 {received: true}  *)
(* exactly when its body parses as JSON to a value other than null that,   *)
(* if its type is one of the three failure types, has a data.object that   *)
(* is neither missing nor null; whatever the event type and whether the    *)
(* dispatch returned true or false.  Every other request is answered 400.  *)
(***************************************************************************)
C2_CarriedMeansReceived ==
  \A r \in Reqs :
    kind[r] = "webhook" /\ pc[r] = "done" =>
      /\ Len(response[r]) = 1
      /\ Carries(body[r]) => response[r][1] = Received
      /\ ~Carries(body[r]) => response[r][1].status = 400

\* a failure event whose alert could not be delivered, acknowledged all the same
C2_Witness ==
  \E r \in Reqs :
    /\ kind[r] = "webhook" /\ Answered(r)
    /\ IsFailureType(TypeOf(body[r]))
    /\ settled[r] = Ok(Bool(FALSE))
    /\ response[r][1] = Received

(***************************************************************************)
(* C3, as claimed.  A POST /webhook request with a parseable body logs     *)
(* exactly one warning and calls sendEmailAlert exactly once if its event  *)
(* type is one of the three failure types, logs no warning and does not    *)
(* call it otherwise, and logs its one info receipt entry in both cases.   *)
(***************************************************************************)
C3_DispatchIffFailureType ==
  \A r \in Reqs :
    kind[r] = "webhook" /\ Parses(body[r]) =>
      /\ LevelBy(r, "webhook", "info") = 1
      /\ IF IsFailureType(TypeOf(body[r]))
           THEN Level(r, "warning") = 1 /\ Times(r, "send_call") = 1
           ELSE Level(r, "warning") = 0 /\ Times(r, "send_call") = 0

(***************************************************************************)
(* C3, amended.  A POST /webhook request with a parseable body logs        *)
(* exactly one warning and calls sendEmailAlert exactly once if its event  *)
(* type is one of the three failure types and its data.object is neither   *)
(* missing nor null; otherwise it logs no warning and does not call it.    *)
(* It logs its one info receipt entry in both cases, unless the body       *)
(* parses to null, which logs no receipt.                                  *)
(***************************************************************************)
C3_DispatchIffFailureObject ==
  \A r \in Reqs :
    kind[r] = "webhook" /\ Parses(body[r]) =>
      /\ LevelBy(r, "webhook", "info") = IF IsNullish(EventOf(body[r])) THEN 0 ELSE 1
      /\ IF IsFailureType(TypeOf(body[r])) /\ ~IsNullish(ObjectOf(body[r]))
           THEN Level(r, "warning") = 1 /\ Times(r, "send_call") = 1
           ELSE Level(r, "warning") = 0 /\ Times(r, "send_call") = 0

\* an invoice.payment_failed event, answered after its one warning and dispatch
C3_Witness ==
  \E r \in Reqs :
    /\ kind[r] = "webhook" /\ Answered(r)
    /\ TypeOf(body[r]) = Str("invoice.payment_failed")
    /\ Level(r, "warning") = 1
    /\ Times(r, "send_call") = 1
    /\ Len(outbox[r]) = 1

(***************************************************************************)
(* C4.  A POST /webhook request whose body does not parse is answered 400  *)
(* with a non-empty error message, calls neither the text-generation nor   *)
(* the mail collaborator, and logs exactly one entry, of level error: no   *)
(* info and no warning entry.                                              *)
(***************************************************************************)
C4_UnparseableBody ==
  \A r \in Reqs :
    kind[r] = "webhook" /\ ~Parses(body[r]) =>
      /\ Answered(r)
      /\ response[r][1].status = 400
      /\ IsString(response[r][1].body) /\ response[r][1].body # Str("")
      /\ steps[r] = <<"responded">>
      /\ completion[r] = <<>> /\ delivery[r] = <<>> /\ outbox[r] = <<>>
      /\ Len(Owned(r)) = 1
      /\ Level(r, "error") = 1

\* a body that is not JSON has been answered
C4_Witness ==
  \E r \in Reqs :
    /\ kind[r] = "webhook" /\ body[r] = Garbage /\ Answered(r)
    /\ response[r][1].status = 400

(***************************************************************************)
(* Vocabulary of the alert properties.                                     *)
(***************************************************************************)
IsNumber(v) == v.t = "number" /\ v # NaN
OptString(v) == v = Undef \/ IsString(v)
IsParty(v) ==
  /\ v.t = "object"
  /\ OptString(Get(v, "name").val)
  /\ OptString(Get(v, "email").val)
IsMethod(v) == v.t = "object" /\ OptString(Get(v, "type").val)

\* a FailedPayment record: an amount, and optional fields of their types
IsFailedPayment(fp) ==
  /\ fp.t = "object"
  /\ IsNumber(Get(fp, "amount").val)
  /\ OptString(Get(fp, "currency").val)
  /\ OptString(Get(fp, "failure_code").val)
  /\ OptString(Get(fp, "failure_message").val)
  /\ Get(fp, "customer").val = Undef \/ IsParty(Get(fp, "customer").val)
  /\ Get(fp, "payment_method_details").val = Undef
       \/ IsMethod(Get(fp, "payment_method_details").val)

\* the text-generation call failed, or its answer holds no parseable JSON
Unusable(out) ==
  \/ ~out.ok
  \/ ~CompletionContent(out.val).ok
  \/ ~JSONParse(CompletionContent(out.val).val).ok

\* the transport accepted, or refused, the one message of request r
Accepted(r) == Len(delivery[r]) = 1 /\ delivery[r][1].ok
Refused(r) == Len(delivery[r]) = 1 /\ ~delivery[r][1].ok

(***************************************************************************)
(* C5.  generateEmailContent never fails outward: for every FailedPayment  *)
(* record, also one with every optional field missing, it settles with a   *)
(* value; and when the text-generation call failed or its answer is not    *)
(* parseable JSON, it has logged exactly one entry, of level error, and    *)
(* the value is the fallback {subject, body} built from the record's       *)
(* fields alone.                                                           *)
(***************************************************************************)
C5_GeneratorFallsBack ==
  \A r \in Reqs :
    pc[r] = "gen" /\ IsFailedPayment(payment[r]) =>
      /\ settled[r].ok
      /\ Len(completion[r]) = 1
      /\ Unusable(completion[r][1]) =>
           /\ LevelBy(r, "generateEmailContent", "error") = 1
           /\ Len(SelectSeq(Owned(r), LAMBDA x : x[2] = "generateEmailContent")) = 1
           /\ settled[r].val = FallbackContent(payment[r]).val
           /\ payment[r] = testPayment =>
                /\ settled[r].val.o.subject =
                     Str("Payment Failed - $29.99 from test@example.com")
                /\ settled[r].val.o.body.s[4] =
                     "- Customer: Test Customer (test@example.com)"
                /\ settled[r].val.o.body.s[5] = "- Amount: $29.99 USD"
           /\ payment[r] = BarePayment =>
                /\ settled[r].val.o.subject =
                     Str("Payment Failed - $0.00 from Unknown Customer")
                /\ settled[r].val.o.body.s[4] = "- Customer: Unknown (Not provided)"
                /\ settled[r].val.o.body.s[5] = "- Amount: $0.00 USD"
                /\ settled[r].val.o.body.s[7] = "- Failure Code: Unknown"

\* the call failed for a record with every optional field missing
C5_Witness ==
  \E r \in Reqs :
    /\ pc[r] = "gen" /\ payment[r] = BarePayment
    /\ completion[r] = <<Throw("Connection error.")>>
    /\ settled[r].ok
    /\ settled[r].val.o.subject = Str("Payment Failed - $0.00 from Unknown Customer")

(***************************************************************************)
(* C6.  sendEmailAlert returns true if and only if the mail transport      *)
(* accepted the message.  When the transport accepted, sendEmailAlert has  *)
(* logged exactly one entry, of level info, and returns true; when it      *)
(* refused, exactly one entry, of level error, and returns false.  It      *)
(* never rejects, so a refusal never becomes an HTTP error response.       *)
(***************************************************************************)
C6_TrueIffAccepted ==
  \A r \in Reqs :
    pc[r] \in {"sent", "done"} /\ Times(r, "send_call") = 1 =>
      /\ settled[r].ok
      /\ settled[r].val = Bool(Accepted(r))
      /\ Accepted(r) =>
           /\ LevelBy(r, "sendEmailAlert", "info") = 1
           /\ Len(SelectSeq(Owned(r), LAMBDA x : x[2] = "sendEmailAlert")) = 1
      /\ Refused(r) =>
           /\ LevelBy(r, "sendEmailAlert", "error") = 1
           /\ Len(SelectSeq(Owned(r), LAMBDA x : x[2] = "sendEmailAlert")) = 1
      /\ pc[r] = "done" /\ Refused(r) =>
           /\ Len(response[r]) = 1
           /\ response[r][1].status = 200

\* a refused message, and the request answered 200
C6_Witness ==
  \E r \in Reqs :
    /\ Answered(r) /\ Refused(r)
    /\ settled[r] = Ok(Bool(FALSE))
    /\ response[r][1].status = 200

(***************************************************************************)
(* C7.  Every POST /test request is answered with a body that holds the    *)
(* synthetic testPayment, whatever the text-generation and mail            *)
(* collaborators did; its success flag is the value sendEmailAlert         *)
(* returned, and the 500 response is never sent.                           *)
(***************************************************************************)
C7_TestEchoesPayment ==
  \A r \in Reqs :
    kind[r] = "test" /\ pc[r] = "done" =>
      /\ Len(response[r]) = 1
      /\ response[r][1].status = 200
      /\ Get(response[r][1].body, "testPayment").val = testPayment
      /\ Get(response[r][1].body, "success") = settled[r]
      /\ Get(response[r][1].body, "success").val = Bool(Accepted(r))
      /\ Level(r, "error") = LevelBy(r, "generateEmailContent", "error")
                               + LevelBy(r, "sendEmailAlert", "error")

\* a test whose alert was refused by the transport
C7_Witness ==
  \E r \in Reqs :
    /\ kind[r] = "test" /\ Answered(r) /\ Refused(r)
    /\ Get(response[r][1].body, "success").val = Bool(FALSE)
    /\ Get(response[r][1].body, "testPayment").val = testPayment

(***************************************************************************)
(* C8, as claimed.  Within one request the steps are strictly ordered:     *)
(* the text-generation call has returned before the mail transport is      *)
(* invoked, the two calls are never outstanding together, the outcome      *)
(* entry of the dispatch is logged after the mail transport returns, and   *)
(* the response is sent only after that entry is logged.  Stated for the   *)
(* requests whose payment is a FailedPayment record.                       *)
(***************************************************************************)
C8_StrictOrder ==
  \A r \in Reqs : IsFailedPayment(payment[r]) =>
    /\ Pos(r, "mail_call") # 0 =>
         /\ 0 < Pos(r, "llm_call") /\ Pos(r, "llm_call") < Pos(r, "llm_return")
         /\ Pos(r, "llm_return") < Pos(r, "mail_call")
    /\ ~(pc[r] = "llm" /\ Times(r, "mail_call") > Times(r, "mail_return"))
    /\ ~(pc[r] = "mail" /\ Times(r, "llm_call") > Times(r, "llm_return"))
    /\ Pos(r, "outcome_logged") # 0 =>
         0 < Pos(r, "mail_return") /\ Pos(r, "mail_return") < Pos(r, "outcome_logged")
    /\ Pos(r, "responded") # 0 /\ Times(r, "send_call") = 1 =>
         0 < Pos(r, "outcome_logged") /\ Pos(r, "outcome_logged") < Pos(r, "responded")

(***************************************************************************)
(* C10, as claimed.  Every call of sendEmailAlert hands exactly one        *)
(* message to the mail transport and makes exactly one text-generation     *)
(* call, whatever the text-generation collaborator answers.  Stated for    *)
(* the requests whose payment is a FailedPayment record.                   *)
(***************************************************************************)
C10_OneMessagePerAlert ==
  \A r \in Reqs : IsFailedPayment(payment[r]) =>
    /\ Len(outbox[r]) <= 1 /\ Times(r, "llm_call") <= 1
    /\ pc[r] \in {"sent", "done"} /\ Times(r, "send_call") = 1 =>
         Len(outbox[r]) = 1 /\ Times(r, "llm_call") = 1

(***************************************************************************)
(* C9.  Provided every collaborator call settles, every /webhook and /test *)
(* request that was accepted is eventually answered, and answered exactly  *)
(* once; no outcome of one request (no failed generation, refused mail or  *)
(* unparseable body) keeps a later request, or one suspended meanwhile,    *)
(* from being answered.                                                    *)
(***************************************************************************)
C9_EveryRequestAnswered ==
  /\ [](\A r \in Reqs : /\ Len(response[r]) <= 1
                        /\ pc[r] = "done" => Len(response[r]) = 1)
  /\ \A r \in Reqs : (pc[r] # "new") ~> Answered(r)

\* two requests interleaved: the first lost its alert, the second was
\* answered while the first was suspended, and both have their own answer
C9_Witness ==
  /\ Answered(1) /\ Answered(2)
  /\ kind[1] = "webhook" /\ kind[2] = "test"
  /\ Interleaved(1, 2)
  /\ Refused(1) /\ response[1][1] = Received
  /\ Accepted(2) /\ Get(response[2][1].body, "success").val = Bool(TRUE)

=============================================================================
